---- MODULE Spec2Model ----
(***************************************************************************)
(* Biometric identity matching engine of the Smart Medical Glass backend:  *)
(* the file-backed identity store (save_encoding / load_encodings), the    *)
(* matcher (find_match), the duplicate guard of registration and the       *)
(* registration handlers.                                                  *)
(*                                                                         *)
(* Numbers: an encoding is a tuple of one coordinate; coordinates,         *)
(* distances and tolerances are counted in tenths, so the default          *)
(* tolerance 0.6 is 6 and confidence 1.0 is 10.  The Euclidean distance    *)
(* of two one-component encodings is the absolute difference.              *)
(***************************************************************************)
EXTENDS Integers, Sequences, FiniteSets, TLC

\* ---------------------------------------------------------------- bounds
NumUsers == 2
MaxCoord == 2
NumThreads == 2
MaxOps == 2
MaxImages == 2
MaxFaces == 2
MaxAngles == 3
MaxPeople == 2
MaxPhotos == 2

\* ------------------------------------------------------ program constants
FACE_RECOGNITION_TOLERANCE == 6
FALLBACK_DISTANCE == 10
GRID_START == 30
GRID_STOP == 80
GRID_STEP == 5
DEFAULT_THRESHOLD == 60
NoUser == 0
NoDistance == -1
NoConfidence == -1
FullConfidence == 10
MIN_FACE_SIZE == 80
BLUR_THRESHOLD == 100

Users == 1..NumUsers
Threads == 1..NumThreads
Coords == {6 * c : c \in 0..MaxCoord}
Vectors == {<<x>> : x \in Coords}
NoVector == <<>>
Tolerances == {3, 6, 12}
UserData == {[name |-> "n1", email |-> "e1"], [name |-> "n2", email |-> "e2"]}
Emails == {"e1", "e2"}

\* FaceEncodingWithMetadata (the timestamp is not modelled)
EncodingRecord(user_id, encoding, user_data) ==
    [user_id |-> user_id, encoding |-> encoding,
     name |-> user_data.name, email |-> user_data.email]

\* FaceMatch
FaceMatch(matched, user_id, confidence, distance, compared) ==
    [matched |-> matched, user_id |-> user_id, confidence |-> confidence,
     distance |-> distance, compared |-> compared]

NoResult == [matched |-> FALSE, user_id |-> NoUser, confidence |-> NoConfidence,
             distance |-> NoDistance, compared |-> -1]

Abs(x) == IF x < 0 THEN -x ELSE x
Min2(a, b) == IF a < b THEN a ELSE b
Max2(a, b) == IF a > b THEN a ELSE b

\* fr.face_distance for one stored encoding: the Euclidean norm of the difference
face_distance(known, probe) == Abs(known[1] - probe[1])

\* the linear confidence of find_match: max(0.0, min(1.0, 1.0 - distance))
Confidence(distance) == Max2(0, Min2(FullConfidence, FullConfidence - distance))

\* the loop "for i, distance in enumerate(face_distances): if distance <
\* best_distance" of find_match: the index of the first minimum (0 for none)
RECURSIVE BestIndexFrom(_, _, _, _)
BestIndexFrom(stored, probe, i, best) ==
    IF i > Len(stored) THEN best
    ELSE IF best = 0 \/ face_distance(stored[i].encoding, probe)
                          < face_distance(stored[best].encoding, probe)
         THEN BestIndexFrom(stored, probe, i + 1, i)
         ELSE BestIndexFrom(stored, probe, i + 1, best)

\* a scan that keeps the last record it saw instead of the nearest
LastIndex(stored, probe) == Len(stored)

BestMatchIndex(stored, probe) == BestIndexFrom(stored, probe, 1, 0)

\* an exclusive bound in place of the inclusive one
StrictlyWithin(distance, tolerance) == distance < tolerance

\* the comparison with its operands exchanged
ToleranceWithin(distance, tolerance) == tolerance <= distance

\* "if best_match_index is not None and best_distance <= self.tolerance"
WithinTolerance(distance, tolerance) == distance <= tolerance

\* a matcher whose empty-population answer carries the distance 0.0
find_match_zero(encoding, stored, tolerance) ==
    IF Len(stored) = 0
    THEN FaceMatch(FALSE, NoUser, NoConfidence, 0, 0)
    ELSE LET best == BestMatchIndex(stored, encoding)
             best_distance == face_distance(stored[best].encoding, encoding)
         IN  FaceMatch(WithinTolerance(best_distance, tolerance), stored[best].user_id,
                       Confidence(best_distance), best_distance, Len(stored))

\* find_match on an already loaded population, for a service whose tolerance
\* is `tolerance`; `compared` counts the distances computed
find_match(encoding, stored, tolerance) ==
    IF Len(stored) = 0
    THEN FaceMatch(FALSE, NoUser, NoConfidence, NoDistance, 0)
    ELSE LET best == BestMatchIndex(stored, encoding)
             best_distance == face_distance(stored[best].encoding, encoding)
         IN  IF WithinTolerance(best_distance, tolerance)
             THEN FaceMatch(TRUE, stored[best].user_id, Confidence(best_distance),
                            best_distance, Len(stored))
             ELSE FaceMatch(FALSE, stored[best].user_id, Confidence(best_distance),
                            best_distance, Len(stored))

\* the duplicate guard of _process_face_data: the matched user, or none
check_duplicate(encoding, stored, tolerance) ==
    LET match_result == find_match(encoding, stored, tolerance)
    IN  IF match_result.matched THEN match_result.user_id ELSE NoUser

\* ---------------------------------------------------------------- state
VARIABLES
    file,      \* the encodings file: state missing / partial / full, and its list
    instance,  \* _face_service_instance: 0 for None, else the service object
    created,   \* FaceRecognitionService objects constructed so far
    svc,       \* per thread: the service object its get_face_service call made
    lock,      \* per service object, _lock: the thread holding it, 0 for free
    users,     \* rows of the relational store: the users table, or the connection tables
    nextId,    \* the next id the relational store assigns
    pc,        \* per thread: where it is in its handler
    loc,       \* per thread: the handler's arguments and local variables
    ops,       \* operations started so far
    savedOk,   \* user_ids for which save_encoding has returned True
    overlap,   \* some save_encoding was called while another was in progress
    last,      \* the operation that completed last
    probe,     \* the probe of a harness: an encoding, or an image
    results    \* matcher harness: per tolerance, what find_match returned

vars == <<file, instance, created, svc, lock, users, nextId, pc, loc, ops, savedOk,
          overlap, last, probe, results>>

Services == 1..NumThreads

\* FaceEncodingStorage as persisted (last_updated is not modelled)
FullFile(encodings) == [state |-> "full", encodings |-> encodings]
MissingFile == [state |-> "missing", encodings |-> <<>>]
\* open(self.encodings_file, 'w') has truncated the file and json.dump has not
\* finished: the bytes on disk are no complete JSON document
PartialFile == [state |-> "partial", encodings |-> <<>>]

UserIds(encodings) == {encodings[i].user_id : i \in 1..Len(encodings)}
DistinctUserIds(encodings) ==
    \A i, j \in 1..Len(encodings) : encodings[i].user_id = encodings[j].user_id => i = j

\* _initialize_encodings_file: an empty population is written when there is no file
InitializedFile(f) == IF f.state = "missing" THEN FullFile(<<>>) ELSE f

\* _load_encodings_storage: json.load of a partial document raises
LoadFails(f) == f.state = "partial"
LoadedEncodings(f) == InitializedFile(f).encodings

\* "for i, enc in enumerate(storage.encodings): if enc.user_id == user_id"
ExistingIndex(encodings, user_id) ==
    IF user_id \in UserIds(encodings)
    THEN CHOOSE i \in 1..Len(encodings) :
             /\ encodings[i].user_id = user_id
             /\ \A j \in 1..(i - 1) : encodings[j].user_id # user_id
    ELSE 0

\* an insert that never looks for the user's record
AppendAlways(encodings, new_encoding) == Append(encodings, new_encoding)

\* a save that drops the user's record and appends the new one
MoveToEnd(encodings, new_encoding) ==
    Append(SelectSeq(encodings, LAMBDA r : r.user_id # new_encoding.user_id), new_encoding)

\* the update-or-append of save_encoding
Upsert(encodings, new_encoding) ==
    LET existing_index == ExistingIndex(encodings, new_encoding.user_id)
    IN  IF existing_index # 0
        THEN [encodings EXCEPT ![existing_index] = new_encoding]
        ELSE Append(encodings, new_encoding)

\* extract_encoding has not been called
NoExtraction == [success |-> FALSE, encoding |-> NoVector, error |-> <<>>, face_count |-> 0,
                 detected |-> FALSE, verdict |-> "none", measured |-> FALSE,
                 extractor |-> FALSE]

\* process_face_images has not been called
NotProcessed == [ok |-> FALSE, encoding |-> NoVector, error |-> <<>>]

\* analyze_dataset has not run
NoReport == [outcome |-> "none", positive |-> <<>>, negative |-> <<>>, recommended |-> 0,
             perfect |-> FALSE, low |-> 0, high |-> 0]

\* the local variables of a handler that has not started
LocInit == [op |-> "none", service |-> 0, user_id |-> NoUser, encoding |-> NoVector,
            name |-> "", email |-> "",
            before |-> <<>>, storage |-> <<>>, load_ok |-> TRUE, loaded |-> <<>>,
            status |-> 0, match |-> NoResult,
            dup |-> NoUser, passed |-> FALSE, email_taken |-> FALSE, rows_seen |-> 0,
            n_images |-> 0, extraction |-> NoExtraction,
            order |-> <<>>, enrolled |-> NotProcessed, detail |-> <<>>,
            stored |-> FALSE, raised |-> FALSE, compared |-> <<>>,
            task |-> "none", task_ok |-> FALSE, task_match |-> NoResult,
            fallback |-> FALSE, report |-> NoReport,
            connection_id |-> 0, rows_before |-> {}, rows_after |-> {}]

\* the matcher harness has not asked yet
NoAnswer == [done |-> FALSE, match |-> NoResult, dup_done |-> FALSE, dup |-> NoUser]

\* the request that completed last, and the one that completed before it
NoOp == [op |-> "none", user_id |-> NoUser, encoding |-> NoVector, images |-> 0,
         match |-> NoResult,
         after |-> "none", after_user |-> NoUser, after_encoding |-> NoVector,
         after_images |-> 0]

\* a lock that never makes its caller wait
LockBlind(l) == TRUE

\* threading.Lock: acquire blocks until the lock is free
LockFree(l) == l = 0

\* ---------------------------------------------------- get_face_service()
\* "if _face_service_instance is None" found None
GetServiceCheck(t) ==
    /\ pc[t] = "idle"
    /\ svc[t] = 0
    /\ instance = 0
    /\ pc' = [pc EXCEPT ![t] = "create"]
    /\ UNCHANGED <<file, instance, created, svc, lock, users, nextId, loc, ops, savedOk,
                   overlap, last, probe, results>>

\* "_face_service_instance = FaceRecognitionService()"
GetServiceCreate(t) ==
    /\ pc[t] = "create"
    /\ created' = created + 1
    /\ instance' = created + 1
    /\ svc' = [svc EXCEPT ![t] = created + 1]
    /\ pc' = [pc EXCEPT ![t] = "idle"]
    /\ UNCHANGED <<file, lock, users, nextId, loc, ops, savedOk, overlap, last, probe,
                   results>>

\* the service object a handler of thread t works with: the one its own
\* get_face_service call constructed, else the module's instance
ServiceOf(t) == IF svc[t] # 0 THEN svc[t] ELSE instance

\* ------------------------------------------------- the file-backed store
\* save_encoding is called
CallSave(t, user_id, encoding, user_data) ==
    /\ pc[t] = "idle"
    /\ ServiceOf(t) # 0
    /\ ops < MaxOps
    /\ pc' = [pc EXCEPT ![t] = "acquire"]
    /\ ops' = ops + 1
    /\ loc' = [loc EXCEPT ![t] = [LocInit EXCEPT !.service = ServiceOf(t),
                                  !.user_id = user_id,
                                  !.encoding = encoding,
                                  !.name = user_data.name,
                                  !.email = user_data.email]]
    /\ svc' = [svc EXCEPT ![t] = 0]
    /\ overlap' = (overlap \/ \E o \in Threads \ {t} : pc[o] \notin {"idle", "create"})
    /\ UNCHANGED <<file, instance, created, lock, users, nextId, savedOk, last, probe,
                   results>>

\* "with self._lock:"
SaveAcquire(t) ==
    /\ pc[t] = "acquire"
    /\ LockFree(lock[loc[t].service])
    /\ lock' = [lock EXCEPT ![loc[t].service] = t]
    /\ pc' = [pc EXCEPT ![t] = "load"]
    /\ UNCHANGED <<file, instance, created, svc, users, nextId, loc, ops, savedOk, overlap,
                   last, probe, results>>

\* the lock of the service object of thread t after t has left the with block
Released(t) == [lock EXCEPT ![loc[t].service] = IF @ = t THEN 0 ELSE @]

\* storage = self._load_encodings_storage(), then the update-or-append on the
\* loaded list; a load that raises leaves the with block and save_encoding
\* raises FaceRecognitionError
SaveLoad(t) ==
    /\ pc[t] = "load"
    /\ IF LoadFails(file)
       THEN /\ lock' = Released(t)
            /\ pc' = [pc EXCEPT ![t] = "idle"]
            /\ loc' = [loc EXCEPT ![t] = [LocInit EXCEPT !.status = 500]]
            /\ file' = file
       ELSE /\ file' = InitializedFile(file)
            /\ loc' = [loc EXCEPT ![t].before = LoadedEncodings(file),
                                  ![t].storage =
                                      Upsert(LoadedEncodings(file),
                                             EncodingRecord(loc[t].user_id, loc[t].encoding,
                                                            [name |-> loc[t].name,
                                                             email |-> loc[t].email]))]
            /\ pc' = [pc EXCEPT ![t] = "open"]
            /\ lock' = lock
    /\ UNCHANGED <<instance, created, svc, users, nextId, ops, savedOk, overlap, last,
                   probe, results>>

\* "with open(self.encodings_file, 'w') as f": the file is truncated
SaveOpen(t) ==
    /\ pc[t] = "open"
    /\ file' = PartialFile
    /\ pc' = [pc EXCEPT ![t] = "dump"]
    /\ UNCHANGED <<instance, created, svc, lock, users, nextId, loc, ops, savedOk, overlap,
                   last, probe, results>>

\* json.dump(storage...) and the close of the file: the whole list is on disk
SaveDump(t) ==
    /\ pc[t] = "dump"
    /\ file' = FullFile(loc[t].storage)
    /\ pc' = [pc EXCEPT ![t] = "release"]
    /\ UNCHANGED <<instance, created, svc, lock, users, nextId, loc, ops, savedOk, overlap,
                   last, probe, results>>

\* "return True" leaves the with block: the lock is released
SaveRelease(t) ==
    /\ pc[t] = "release"
    /\ lock' = Released(t)
    /\ savedOk' = savedOk \cup {loc[t].user_id}
    /\ pc' = [pc EXCEPT ![t] = "idle"]
    /\ loc' = [loc EXCEPT ![t] = LocInit]
    /\ UNCHANGED <<file, instance, created, svc, users, nextId, ops, overlap, last, probe,
                   results>>

\* load_encodings: no lock is taken
LoadEncodings(t) ==
    /\ pc[t] = "idle"
    /\ ServiceOf(t) # 0
    /\ ops < MaxOps
    /\ ops' = ops + 1
    /\ svc' = [svc EXCEPT ![t] = 0]
    /\ IF LoadFails(file)
       THEN /\ loc' = [loc EXCEPT ![t] = [LocInit EXCEPT !.load_ok = FALSE, !.status = 500]]
            /\ file' = file
       ELSE /\ loc' = [loc EXCEPT ![t] = [LocInit EXCEPT !.loaded = LoadedEncodings(file)]]
            /\ file' = InitializedFile(file)
    /\ UNCHANGED <<instance, created, lock, users, nextId, pc, savedOk, overlap, last,
                   probe, results>>

InitCommon ==
    /\ lock = [s \in Services |-> 0]
    /\ svc = [t \in Threads |-> 0]
    /\ users = {}
    /\ nextId = 1
    /\ pc = [t \in Threads |-> "idle"]
    /\ loc = [t \in Threads |-> LocInit]
    /\ ops = 0
    /\ savedOk = {}
    /\ overlap = FALSE
    /\ last = NoOp
    /\ probe = NoVector
    /\ results = [T \in Tolerances |-> NoAnswer]

\* the service object exists (a first get_face_service call has returned)
InitStore ==
    /\ InitCommon
    /\ instance = 1
    /\ created = 1
    /\ file = MissingFile

NextStore ==
    \E t \in Threads :
        \/ \E u \in Users, e \in Vectors, d \in UserData : CallSave(t, u, e, d)
        \/ SaveAcquire(t)
        \/ SaveLoad(t)
        \/ SaveOpen(t)
        \/ SaveDump(t)
        \/ SaveRelease(t)
        \/ LoadEncodings(t)

SpecStore == InitStore /\ [][NextStore]_vars

\* no get_face_service call has been made yet
InitStartup ==
    /\ InitCommon
    /\ instance = 0
    /\ created = 0
    /\ file = MissingFile

NextStartup ==
    \E t \in Threads :
        \/ GetServiceCheck(t)
        \/ GetServiceCreate(t)
        \/ \E u \in Users, e \in Vectors, d \in UserData : CallSave(t, u, e, d)
        \/ SaveAcquire(t)
        \/ SaveLoad(t)
        \/ SaveOpen(t)
        \/ SaveDump(t)
        \/ SaveRelease(t)
        \/ LoadEncodings(t)

SpecStartup == InitStartup /\ [][NextStartup]_vars

\* ------------------------------------------------------------ the matcher
\* the populations save_encoding can have written: no user_id twice
StoredRecords == {EncodingRecord(u, e, [name |-> "n1", email |-> "e1"]) :
                     u \in Users, e \in Vectors}
Populations ==
    {s \in UNION {[1..n -> StoredRecords] : n \in 0..NumUsers} : DistinctUserIds(s)}

\* find_match(encoding) of a service with tolerance T: load_encodings, then the scan
FindMatch(T) ==
    /\ ~results[T].done
    /\ results' = [results EXCEPT ![T].done = TRUE,
                                  ![T].match = find_match(probe, LoadedEncodings(file), T)]
    /\ file' = InitializedFile(file)
    /\ UNCHANGED <<instance, created, svc, lock, users, nextId, pc, loc, ops, savedOk,
                   overlap, last, probe>>

\* the duplicate guard of _process_face_data on the same probe
CheckDuplicate(T) ==
    /\ ~results[T].dup_done
    /\ results' = [results EXCEPT ![T].dup_done = TRUE,
                                  ![T].dup = check_duplicate(probe, LoadedEncodings(file), T)]
    /\ file' = InitializedFile(file)
    /\ UNCHANGED <<instance, created, svc, lock, users, nextId, pc, loc, ops, savedOk,
                   overlap, last, probe>>

InitMatch ==
    /\ lock = [s \in Services |-> 0]
    /\ svc = [t \in Threads |-> 0]
    /\ users = {}
    /\ nextId = 1
    /\ pc = [t \in Threads |-> "idle"]
    /\ loc = [t \in Threads |-> LocInit]
    /\ ops = 0
    /\ savedOk = {}
    /\ overlap = FALSE
    /\ last = NoOp
    /\ results = [T \in Tolerances |-> NoAnswer]
    /\ instance = 1
    /\ created = 1
    /\ probe \in Vectors
    /\ file \in {MissingFile} \cup {FullFile(s) : s \in Populations}

NextMatch ==
    \E T \in Tolerances :
        \/ FindMatch(T)
        \/ CheckDuplicate(T)

SpecMatch == InitMatch /\ [][NextMatch]_vars

\* --------------------------------------------------- claims: the matcher
\* the distances from the probe to the records of the file
Distances == {face_distance(file.encodings[i].encoding, probe) :
                 i \in 1..Len(file.encodings)}
MinDistance == CHOOSE d \in Distances : \A e \in Distances : d <= e
IdsAt(d) == {file.encodings[i].user_id :
                i \in {j \in 1..Len(file.encodings) :
                           face_distance(file.encodings[j].encoding, probe) = d}}

\* C1: on a non-empty population find_match reports the minimum distance
\* between the probe and the stored vectors, is matched exactly when that
\* minimum is <= tolerance, then names a record at that minimum distance, and
\* reports the minimum also when it is not matched.
C1_NearestWithinTolerance ==
    \A T \in Tolerances :
        (results[T].done /\ Len(file.encodings) > 0) =>
            /\ results[T].match.distance = MinDistance
            /\ results[T].match.matched <=> (MinDistance <= T)
            /\ results[T].match.matched => results[T].match.user_id \in IdsAt(MinDistance)

\* C1 witness: a match at exactly the tolerance, found behind a farther record,
\* and on the same population a miss at a smaller tolerance that reports it
C1_Witness ==
    \E T, S \in Tolerances :
        /\ S < T
        /\ results[T].done /\ results[S].done
        /\ Len(file.encodings) >= 2
        /\ results[T].match.matched
        /\ results[T].match.distance = T
        /\ results[T].match.user_id # file.encodings[1].user_id
        /\ ~results[S].match.matched
        /\ results[S].match.distance = T

\* C6: on an empty population find_match answers matched=false, user_id=null,
\* distance=null and has computed no distance.
C6_EmptyPopulation ==
    \A T \in Tolerances :
        (results[T].done /\ Len(file.encodings) = 0) =>
            /\ ~results[T].match.matched
            /\ results[T].match.user_id = NoUser
            /\ results[T].match.distance = NoDistance
            /\ results[T].match.compared = 0

\* C6 witness: find_match has answered on an empty file
C6_Witness ==
    \E T \in Tolerances :
        results[T].done /\ file.state = "full" /\ Len(file.encodings) = 0

\* C7: a probe matched at tolerance T is matched at every tolerance >= T on
\* the same population.
C7_MonotoneInTolerance ==
    \A T, S \in Tolerances :
        (T <= S /\ results[T].done /\ results[S].done /\ results[T].match.matched)
            => results[S].match.matched

\* C7 witness: matched at two tolerances and missed at a third, smaller one
C7_Witness ==
    \E R, T, S \in Tolerances :
        /\ R < T /\ T < S
        /\ results[R].done /\ results[T].done /\ results[S].done
        /\ ~results[R].match.matched
        /\ results[T].match.matched
        /\ results[S].match.matched

\* C8: the duplicate guard names the user of a stored vector at distance 0
\* from the probe whenever there is one, and names nobody whenever every
\* stored vector is farther than the tolerance.
C8_DuplicateGuard ==
    \A T \in Tolerances :
        results[T].dup_done =>
            /\ (0 \in Distances) => results[T].dup \in IdsAt(0)
            /\ (\A d \in Distances : d > T) => results[T].dup = NoUser

\* C8 witness: a duplicate found behind a record that is within tolerance but
\* no exact duplicate
C8_Witness ==
    \E T \in Tolerances :
        /\ results[T].dup_done
        /\ Len(file.encodings) >= 2
        /\ face_distance(file.encodings[1].encoding, probe) > 0
        /\ face_distance(file.encodings[1].encoding, probe) <= T
        /\ results[T].dup \in IdsAt(0)

\* ------------------------------------------------------ claims: the store
InSave(t) == pc[t] \in {"load", "open", "dump", "release"}

\* C5: the persisted population never holds two records of one user_id, and a
\* save_encoding for a user_id already present has put its new record (vector
\* and metadata) in the place of the old one, every other record untouched and
\* the list no longer; for a new user_id the list has grown by that one record.
C5_OneRecordPerUser ==
    /\ DistinctUserIds(file.encodings)
    /\ \A t \in Threads : pc[t] = "release" =>
        LET new == EncodingRecord(loc[t].user_id, loc[t].encoding,
                                  [name |-> loc[t].name, email |-> loc[t].email])
            now == file.encodings
            before == loc[t].before
            known == loc[t].user_id \in UserIds(before)
        IN  /\ file.state = "full"
            /\ Cardinality({i \in 1..Len(now) : now[i].user_id = loc[t].user_id}) = 1
            /\ \E i \in 1..Len(now) : now[i] = new
            /\ Len(now) = Len(before) + (IF known THEN 0 ELSE 1)
            /\ \A i \in 1..Len(before) :
                   IF before[i].user_id = loc[t].user_id THEN now[i] = new
                   ELSE now[i] = before[i]

\* C5 witness: a re-enrollment has just overwritten a record that differed in
\* vector and in metadata
C5_Witness ==
    \E t \in Threads :
        /\ pc[t] = "release"
        /\ \E i \in 1..Len(loc[t].before) :
               /\ loc[t].before[i].user_id = loc[t].user_id
               /\ loc[t].before[i].encoding # loc[t].encoding
               /\ loc[t].before[i].name # loc[t].name

\* C9: the read-modify-write sequences of save_encoding calls never overlap,
\* and once every call has returned the file holds a record of every user_id
\* whose save returned True.
C9_SavesSerialized ==
    /\ Cardinality({t \in Threads : InSave(t)}) <= 1
    /\ (\A t \in Threads : pc[t] = "idle") =>
           /\ savedOk # {} => file.state = "full"
           /\ savedOk \subseteq UserIds(file.encodings)

\* C10: no load_encodings fails or meets a partially written file.
C10_LoadsNeverFail ==
    \A t \in Threads : loc[t].load_ok /\ (InSave(t) \/ loc[t].status # 500)

\* ----------------------------------------------------------- registration
\* FaceExtractionResult of one uploaded image
Extracted(v) == [success |-> TRUE, encoding |-> v, error |-> ""]
NotExtracted == [success |-> FALSE, encoding |-> NoVector, error |-> "No face detected in image"]
ExtractionResults == {Extracted(v) : v \in Vectors} \cup {NotExtracted}

\* the angle -> image maps of a request, in the order of the dict, each image
\* standing for what extract_encoding makes of it
ImageMaps == UNION {[1..n -> ExtractionResults] : n \in 0..MaxImages}

RECURSIVE SumOf(_)
SumOf(encodings) ==
    IF Len(encodings) = 0 THEN 0 ELSE encodings[1][1] + SumOf(Tail(encodings))

\* "if result.success and result.encoding is not None: encodings.append(...)"
RECURSIVE SuccessfulEncodings(_)
SuccessfulEncodings(images) ==
    IF Len(images) = 0 THEN <<>>
    ELSE IF images[1].success /\ images[1].encoding # NoVector
         THEN <<images[1].encoding>> \o SuccessfulEncodings(Tail(images))
         ELSE SuccessfulEncodings(Tail(images))

\* the sum in place of the mean
SumEncoding(encodings) == <<SumOf(encodings)>>

\* the first encoding in place of the mean
FirstEncoding(encodings) == encodings[1]

\* np.mean(encodings, axis=0); the coordinates are multiples of 6 and at most
\* three encodings are averaged, so the quotient is exact
MeanEncoding(encodings) == <<SumOf(encodings) \div Len(encodings)>>

\* process_face_images: the mean of the encodings extracted, or the error raised
process_face_images(images) ==
    IF Len(images) = 0 THEN [ok |-> FALSE, encoding |-> NoVector]
    ELSE IF Len(SuccessfulEncodings(images)) = 0 THEN [ok |-> FALSE, encoding |-> NoVector]
    ELSE [ok |-> TRUE, encoding |-> MeanEncoding(SuccessfulEncodings(images))]

EmailsOf(rows) == {r.email : r \in rows}

\* a users table that also refuses a face encoding within tolerance of a stored one
RejectsEmailOrFace(rows, email, face_encoding) ==
    \/ email \in EmailsOf(rows)
    \/ \E r \in rows : /\ r.face_encoding # NoVector
                       /\ face_encoding # NoVector
                       /\ face_distance(r.face_encoding, face_encoding)
                              <= FACE_RECOGNITION_TOLERANCE

\* save_user refuses a row: _ensure_user_not_exists looks at the email only
SaveUserRejects(rows, email, face_encoding) == email \in EmailsOf(rows)

UserRow(id, email, face_encoding) ==
    [id |-> id, email |-> email, face_encoding |-> face_encoding]

\* SupabaseService.save_face_encoding: the encoding is written to the user's row
save_face_encoding(row, encoding) == [row EXCEPT !.face_encoding = encoding]

\* the record of a request that has just completed; it remembers the request
\* that had completed before it
Completed(op, user_id, encoding, images, match) ==
    [op |-> op, user_id |-> user_id, encoding |-> encoding, images |-> images,
     match |-> match,
     after |-> last.op, after_user |-> last.user_id, after_encoding |-> last.encoding,
     after_images |-> last.images]

\* the status _process_face_data ends with: its "except Exception" turns every
\* HTTPException raised inside its try block into a 500
ProcessFaceStatus(images, processed, load_fails, matched) ==
    IF Len(images) = 0 THEN 500
    ELSE IF ~processed.ok THEN 400
    ELSE IF load_fails THEN 400
    ELSE IF matched THEN 500
    ELSE 0

\* a conflict message that names the account that was matched
LeakyDetail(match_result) ==
    <<"This face is already registered to", match_result.user_id, match_result.distance>>

\* the detail of the HTTPException(409) raised for a duplicate face
DuplicateDetail(match_result) == <<"This face is already registered to another user.">>

\* the detail of the HTTPException _process_face_data ends with: an
\* HTTPException raised inside its try block comes back as
\* "Face processing failed: <status>: <detail>"
ProcessFaceDetail(images, processed, load_fails, match_result) ==
    IF Len(images) = 0
    THEN <<"Face processing failed", 400, <<"At least one face image is required">>>>
    ELSE IF ~processed.ok THEN <<"Face processing failed", 0, <<"No face detected">>>>
    ELSE IF load_fails THEN <<"Face matching failed", 0, <<>>>>
    ELSE IF match_result.matched
    THEN <<"Face processing failed", 409, DuplicateDetail(match_result)>>
    ELSE <<>>

\* register_new_user up to the end of _process_face_data: _validate_registration,
\* then the images are collected and averaged and the duplicate guard runs
RegisterBegin(t, email, password_ok, images) ==
    /\ pc[t] = "idle"
    /\ instance # 0
    /\ ops < MaxOps
    /\ ops' = ops + 1
    /\ LET processed == process_face_images(images)
           match_result == IF processed.ok /\ ~LoadFails(file)
                           THEN find_match(processed.encoding, LoadedEncodings(file),
                                           FACE_RECOGNITION_TOLERANCE)
                           ELSE NoResult
           status == IF ~password_ok THEN 400
                     ELSE IF email \in EmailsOf(users) THEN 409
                     ELSE ProcessFaceStatus(images, processed, LoadFails(file),
                                            match_result.matched)
           validated == password_ok /\ email \notin EmailsOf(users)
           detail == IF ~password_ok THEN <<"Password validation failed", 0, <<>>>>
                     ELSE IF email \in EmailsOf(users)
                     THEN <<"User with this email already exists", 0, <<>>>>
                     ELSE ProcessFaceDetail(images, processed, LoadFails(file), match_result)
           mine == [LocInit EXCEPT !.op = "register_new", !.email = email,
                                   !.encoding = processed.encoding,
                                   !.match = match_result,
                                   !.dup = IF validated /\ match_result.matched
                                           THEN match_result.user_id ELSE NoUser,
                                   !.rows_seen = Cardinality(users),
                                   !.n_images = Len(images),
                                   !.status = status,
                                   !.detail = detail]
       IN  /\ file' = IF validated /\ processed.ok THEN
                          IF LoadFails(file) THEN file ELSE InitializedFile(file)
                      ELSE file
           /\ IF status = 0
              THEN /\ pc' = [pc EXCEPT ![t] = "persist"]
                   /\ loc' = [loc EXCEPT ![t] = [mine EXCEPT !.passed = TRUE]]
                   /\ last' = last
              ELSE /\ pc' = pc
                   /\ loc' = [loc EXCEPT ![t] = mine]
                   /\ last' = Completed("failed", NoUser, processed.encoding, Len(images),
                                        NoResult)
    /\ UNCHANGED <<instance, created, svc, lock, users, nextId, savedOk, overlap, probe,
                   results>>

\* _persist_user_registration: save_user, then the images are uploaded
RegisterPersist(t) ==
    /\ pc[t] = "persist"
    /\ nextId <= NumUsers
    /\ pc' = [pc EXCEPT ![t] = "idle"]
    /\ IF SaveUserRejects(users, loc[t].email, loc[t].encoding)
       THEN /\ loc' = [loc EXCEPT ![t].status = 500,
                                  ![t].email_taken = loc[t].email \in EmailsOf(users)]
            /\ last' = Completed("failed", NoUser, loc[t].encoding, loc[t].n_images,
                                        NoResult)
            /\ UNCHANGED <<users, nextId>>
       ELSE /\ users' = users \cup {UserRow(nextId, loc[t].email, loc[t].encoding)}
            /\ nextId' = nextId + 1
            /\ loc' = [loc EXCEPT ![t].status = 200, ![t].user_id = nextId]
            /\ last' = Completed("register", nextId, loc[t].encoding, loc[t].n_images,
                                        NoResult)
    /\ UNCHANGED <<file, instance, created, svc, lock, ops, savedOk, overlap, probe,
                   results>>

\* register_user of the registration router: the encoding of the one image is
\* extracted, the user row is saved, the encoding is saved to the file (a
\* failure is printed and ignored) and to the user row
RegisterUser(t, email, image) ==
    /\ pc[t] = "idle"
    /\ instance # 0
    /\ ops < MaxOps
    /\ nextId <= NumUsers
    /\ LockFree(lock[instance])
    /\ ops' = ops + 1
    /\ pc' = pc
    /\ IF ~image.success
       THEN /\ loc' = [loc EXCEPT ![t] = [LocInit EXCEPT !.op = "register_user",
                                                         !.email = email, !.status = 400]]
            /\ last' = Completed("failed", NoUser, NoVector, 1, NoResult)
            /\ UNCHANGED <<file, users, nextId>>
       ELSE IF SaveUserRejects(users, email, NoVector)
       THEN /\ loc' = [loc EXCEPT ![t] = [LocInit EXCEPT !.op = "register_user",
                                                         !.email = email, !.status = 409]]
            /\ last' = Completed("failed", NoUser, image.encoding, 1, NoResult)
            /\ UNCHANGED <<file, users, nextId>>
       ELSE /\ users' = users \cup {save_face_encoding(UserRow(nextId, email, NoVector),
                                                      image.encoding)}
            /\ nextId' = nextId + 1
            /\ file' = IF LoadFails(file) THEN file
                       ELSE FullFile(Upsert(LoadedEncodings(file),
                                            EncodingRecord(nextId, image.encoding,
                                                           [name |-> "n1", email |-> email])))
            /\ loc' = [loc EXCEPT ![t] = [LocInit EXCEPT !.op = "register_user",
                                                         !.email = email,
                                                         !.encoding = image.encoding,
                                                         !.user_id = nextId,
                                                         !.n_images = 1,
                                                         !.stored = ~LoadFails(file),
                                                         !.status = 201]]
            /\ last' = Completed("register", nextId, image.encoding, 1, NoResult)
    /\ UNCHANGED <<instance, created, svc, lock, savedOk, overlap, probe, results>>

\* recognize_face of the recognition router: the encoding of the image is
\* extracted and find_match searches the file
Recognize(t, image) ==
    /\ pc[t] = "idle"
    /\ instance # 0
    /\ ops < MaxOps
    /\ ops' = ops + 1
    /\ pc' = pc
    /\ IF ~image.success
       THEN /\ loc' = [loc EXCEPT ![t] = [LocInit EXCEPT !.op = "recognize", !.status = 400]]
            /\ last' = Completed("failed", NoUser, NoVector, 1, NoResult)
            /\ file' = file
       ELSE IF LoadFails(file)
       THEN /\ loc' = [loc EXCEPT ![t] = [LocInit EXCEPT !.op = "recognize", !.status = 500,
                                                         !.load_ok = FALSE]]
            /\ last' = Completed("failed", NoUser, image.encoding, 1, NoResult)
            /\ file' = file
       ELSE LET match_result == find_match(image.encoding, LoadedEncodings(file),
                                           FACE_RECOGNITION_TOLERANCE)
            IN  /\ loc' = [loc EXCEPT ![t] = [LocInit EXCEPT !.op = "recognize",
                                                             !.encoding = image.encoding,
                                                             !.match = match_result,
                                                             !.status = 200]]
                /\ last' = Completed("recognize", match_result.user_id, image.encoding, 1,
                                     match_result)
                /\ file' = InitializedFile(file)
    /\ UNCHANGED <<instance, created, svc, lock, users, nextId, savedOk, overlap, probe,
                   results>>

InitReg ==
    /\ InitCommon
    /\ instance = 1
    /\ created = 1
    /\ file = MissingFile

NextReg ==
    \E t \in Threads :
        \/ \E email \in Emails, password_ok \in BOOLEAN, images \in ImageMaps :
               RegisterBegin(t, email, password_ok, images)
        \/ RegisterPersist(t)
        \/ \E email \in Emails, image \in ExtractionResults : RegisterUser(t, email, image)
        \/ \E image \in ExtractionResults : Recognize(t, image)

SpecReg == InitReg /\ [][NextReg]_vars

\* ------------------------------------------------- claims: registration
\* C2: a registration whose canonical vector is within tolerance of a record
\* of another user ends with the conflict status 409, nothing of it having
\* been persisted: no id was given to the applicant.
C2_DuplicateEndsInConflict ==
    \A t \in Threads :
        (loc[t].op = "register_new" /\ loc[t].dup # NoUser) =>
            /\ pc[t] = "idle"
            /\ loc[t].status = 409
            /\ loc[t].user_id = NoUser

delete_encoding(rows, user_id) ==
    {IF r.id = user_id THEN [r EXCEPT !.face_encoding = NoVector] ELSE r : r \in rows}

\* SupabaseService.delete_user: the row of the user is deleted
delete_user(rows, user_id) == {r \in rows : r.id # user_id}

\* delete_user_admin / delete_user_account: "User not found" for a user
\* without a row, else delete_user_fully: delete_encoding, the images,
\* delete_user
DeleteUser(t, user_id) ==
    /\ pc[t] = "idle"
    /\ instance # 0
    /\ ops < MaxOps
    /\ ops' = ops + 1
    /\ pc' = pc
    /\ IF \E r \in users : r.id = user_id
       THEN /\ users' = delete_user(delete_encoding(users, user_id), user_id)
            /\ loc' = [loc EXCEPT ![t] = [LocInit EXCEPT !.op = "delete",
                                                         !.user_id = user_id,
                                                         !.status = 200]]
            /\ last' = Completed("delete", user_id, NoVector, 0, NoResult)
       ELSE /\ users' = users
            /\ loc' = [loc EXCEPT ![t] = [LocInit EXCEPT !.op = "delete",
                                                         !.status = 404]]
            /\ last' = Completed("failed", NoUser, NoVector, 0, NoResult)
    /\ UNCHANGED <<file, instance, created, svc, lock, nextId, savedOk, overlap, probe,
                   results>>

\* user 1 has registered through register_user: its row and its record exist
InitDelete ==
    /\ lock = [s \in Services |-> 0]
    /\ svc = [t \in Threads |-> 0]
    /\ pc = [t \in Threads |-> "idle"]
    /\ loc = [t \in Threads |-> LocInit]
    /\ ops = 0
    /\ savedOk = {}
    /\ overlap = FALSE
    /\ last = NoOp
    /\ probe = NoVector
    /\ results = [T \in Tolerances |-> NoAnswer]
    /\ instance = 1
    /\ created = 1
    /\ nextId = 2
    /\ \E e \in Vectors :
           /\ users = {UserRow(1, "e1", e)}
           /\ file = FullFile(<<EncodingRecord(1, e, [name |-> "n1", email |-> "e1"])>>)

NextDelete ==
    \E t \in Threads :
        \/ \E u \in Users : DeleteUser(t, u)
        \/ \E image \in ExtractionResults : Recognize(t, image)
        \/ \E email \in Emails, password_ok \in BOOLEAN, images \in ImageMaps :
               RegisterBegin(t, email, password_ok, images)
        \/ RegisterPersist(t)

SpecDelete == InitDelete /\ [][NextDelete]_vars

\* C11: once the deletion of a user has completed the encodings file holds no
\* record of that user, and a find_match made right after it does not answer
\* with the deleted user's id.
C11_DeletedUserLeavesPopulation ==
    /\ (last.op = "delete") => last.user_id \notin UserIds(file.encodings)
    /\ (last.op = "recognize" /\ last.after = "delete") =>
           last.match.user_id # last.after_user

\* ------------------------------------------------ extract_encoding
\* what an uploaded image is to extract_encoding: what preprocess_image makes
\* of its bytes, the faces fr.face_locations finds, the box of the first face,
\* how check_blur ends on its crop, and what fr.face_encodings returns
Preprocessed == {"ok", "format", "size", "undecodable"}
FaceCounts == 0..MaxFaces
FaceSizes == {MIN_FACE_SIZE - 1, MIN_FACE_SIZE}
BlurChecks == {"measured", "raises"}
Variances == {BLUR_THRESHOLD - 1, BLUR_THRESHOLD, BLUR_THRESHOLD + 1}
Images ==
    [preprocess : Preprocessed, faces : FaceCounts, face_height : FaceSizes,
     face_width : FaceSizes, blur : BlurChecks, variance : Variances,
     encoded : BOOLEAN, encoding : Vectors]

\* the ImageProcessingError preprocess_image raises (a message is a tuple
\* of its parts), <<>> for none
PreprocessError(image) ==
    IF image.preprocess = "format" THEN <<"Invalid image format">>
    ELSE IF image.preprocess = "size" THEN <<"Image size exceeds maximum allowed size">>
    ELSE IF image.preprocess = "undecodable" THEN <<"Failed to decode image">>
    ELSE <<>>

\* ImageProcessor.check_blur: "return variance < threshold, variance"
check_blur(variance, threshold) == variance < threshold

\* a gate that measures the sharpness before the size of the face
validate_blur_first(image) ==
    IF image.blur = "measured" /\ check_blur(image.variance, BLUR_THRESHOLD)
    THEN [is_valid |-> FALSE, reason |-> "Face image too blurry", measured |-> TRUE]
    ELSE IF image.face_height < MIN_FACE_SIZE \/ image.face_width < MIN_FACE_SIZE
    THEN [is_valid |-> FALSE, reason |-> "Face too small", measured |-> TRUE]
    ELSE [is_valid |-> TRUE, reason |-> "Quality checks passed", measured |-> TRUE]

\* validate_face_quality: the size of the box, then the blur of the crop; a
\* blur check that raises is logged and the face is let through
validate_face_quality(image) ==
    IF image.face_height < MIN_FACE_SIZE \/ image.face_width < MIN_FACE_SIZE
    THEN [is_valid |-> FALSE, reason |-> "Face too small", measured |-> FALSE]
    ELSE IF image.blur = "raises"
    THEN [is_valid |-> TRUE, reason |-> "Quality checks passed", measured |-> FALSE]
    ELSE IF check_blur(image.variance, BLUR_THRESHOLD)
    THEN [is_valid |-> FALSE, reason |-> "Face image too blurry", measured |-> TRUE]
    ELSE [is_valid |-> TRUE, reason |-> "Quality checks passed", measured |-> TRUE]

\* FaceExtractionResult, with what extract_encoding did on the way: whether
\* fr.face_locations ran, the verdict of validate_face_quality ("none" when
\* it was not asked), whether the sharpness was measured and whether
\* fr.face_encodings ran
ExtractionResult(success, encoding, error, face_count, detected, verdict, measured, extractor) ==
    [success |-> success, encoding |-> encoding, error |-> error,
     face_count |-> face_count, detected |-> detected, verdict |-> verdict,
     measured |-> measured, extractor |-> extractor]

\* an extraction that takes the first face of an image with several
extract_first_face(image) ==
    IF image.preprocess # "ok"
    THEN ExtractionResult(FALSE, NoVector, PreprocessError(image), 0, FALSE, "none", FALSE,
                          FALSE)
    ELSE IF image.faces = 0
    THEN ExtractionResult(FALSE, NoVector, <<"No face detected in image">>, 0, TRUE, "none",
                          FALSE, FALSE)
    ELSE ExtractionResult(TRUE, image.encoding, <<>>, 1, TRUE, "accepted", TRUE, TRUE)

\* an extraction that runs fr.face_encodings before the quality check
extract_then_validate(image) ==
    IF image.preprocess # "ok"
    THEN ExtractionResult(FALSE, NoVector, PreprocessError(image), 0, FALSE, "none", FALSE,
                          FALSE)
    ELSE IF image.faces = 0
    THEN ExtractionResult(FALSE, NoVector, <<"No face detected in image">>, 0, TRUE, "none",
                          FALSE, FALSE)
    ELSE IF image.faces > 1
    THEN ExtractionResult(FALSE, NoVector, <<"Multiple faces detected", image.faces>>,
                          image.faces, TRUE, "none", FALSE, FALSE)
    ELSE LET quality == validate_face_quality(image)
         IN  IF ~quality.is_valid
             THEN ExtractionResult(FALSE, NoVector,
                                   <<"Quality check failed", quality.reason>>,
                                   image.faces, TRUE, "rejected", quality.measured, TRUE)
             ELSE ExtractionResult(TRUE, image.encoding, <<>>, 1, TRUE, "accepted",
                                   quality.measured, TRUE)

\* extract_encoding
extract_encoding(image) ==
    IF image.preprocess # "ok"
    THEN ExtractionResult(FALSE, NoVector, PreprocessError(image), 0, FALSE, "none", FALSE,
                          FALSE)
    ELSE IF image.faces = 0
    THEN ExtractionResult(FALSE, NoVector, <<"No face detected in image">>, 0, TRUE, "none",
                          FALSE, FALSE)
    ELSE IF image.faces > 1
    THEN ExtractionResult(FALSE, NoVector, <<"Multiple faces detected", image.faces>>,
                          image.faces, TRUE, "none", FALSE, FALSE)
    ELSE LET quality == validate_face_quality(image)
         IN  IF ~quality.is_valid
             THEN ExtractionResult(FALSE, NoVector,
                                   <<"Quality check failed", quality.reason>>,
                                   image.faces, TRUE, "rejected", quality.measured, FALSE)
             ELSE IF ~image.encoded
             THEN ExtractionResult(FALSE, NoVector, <<"Failed to extract face encoding">>,
                                   image.faces, TRUE, "accepted", quality.measured, TRUE)
             ELSE ExtractionResult(TRUE, image.encoding, <<>>, 1, TRUE, "accepted",
                                   quality.measured, TRUE)

\* a handler of thread t calls extract_encoding on the image of the request
ExtractEncoding(t) ==
    /\ pc[t] = "idle"
    /\ instance # 0
    /\ loc[t].op = "none"
    /\ loc' = [loc EXCEPT ![t] = [LocInit EXCEPT !.op = "extract",
                                                 !.extraction = extract_encoding(probe)]]
    /\ UNCHANGED <<file, instance, created, svc, lock, users, nextId, pc, ops, savedOk,
                   overlap, last, probe, results>>

InitExtract ==
    /\ lock = [s \in Services |-> 0]
    /\ svc = [t \in Threads |-> 0]
    /\ users = {}
    /\ nextId = 1
    /\ pc = [t \in Threads |-> "idle"]
    /\ loc = [t \in Threads |-> LocInit]
    /\ ops = 0
    /\ savedOk = {}
    /\ overlap = FALSE
    /\ last = NoOp
    /\ results = [T \in Tolerances |-> NoAnswer]
    /\ instance = 1
    /\ created = 1
    /\ file = MissingFile
    /\ probe \in Images

NextExtract == \E t \in Threads : ExtractEncoding(t)

SpecExtract == InitExtract /\ [][NextExtract]_vars

\* ------------------------------------------- claims: extract_encoding
\* the image has passed preprocess_image and shows exactly one face
OneFace(image) == image.preprocess = "ok" /\ image.faces = 1
TooSmall(image) == image.face_height < MIN_FACE_SIZE \/ image.face_width < MIN_FACE_SIZE

\* C12: on an image with no face extract_encoding fails with the no-face
\* reason, on an image with two or more faces with the multiple-faces reason
\* and the number of faces; in both cases no face went to the extractor and
\* no vector is returned.
C12_FaceCountRejected ==
    \A t \in Threads :
        (loc[t].op = "extract" /\ probe.preprocess = "ok" /\ probe.faces # 1) =>
            /\ ~loc[t].extraction.success
            /\ loc[t].extraction.encoding = NoVector
            /\ ~loc[t].extraction.extractor
            /\ probe.faces = 0 =>
                   loc[t].extraction.error = <<"No face detected in image">>
            /\ probe.faces > 1 =>
                   /\ loc[t].extraction.error = <<"Multiple faces detected", probe.faces>>
                   /\ loc[t].extraction.face_count = probe.faces

\* C12 witness: an image with two faces, the first of which would have passed
\* every other rule, has been rejected
C12_Witness ==
    \E t \in Threads :
        /\ loc[t].op = "extract"
        /\ probe.preprocess = "ok" /\ probe.faces = 2
        /\ ~TooSmall(probe) /\ probe.variance > BLUR_THRESHOLD /\ probe.encoded
        /\ ~loc[t].extraction.success

\* C13: the reason reported is that of the first rule violated, in the order
\* preprocessing (format, size, decoding), face count, face size, sharpness.
C13_FirstFailureWins ==
    \A t \in Threads :
        loc[t].op = "extract" =>
            IF probe.preprocess # "ok"
            THEN /\ loc[t].extraction.error = PreprocessError(probe)
                 /\ ~loc[t].extraction.detected
            ELSE IF probe.faces = 0
            THEN loc[t].extraction.error = <<"No face detected in image">>
            ELSE IF probe.faces > 1
            THEN loc[t].extraction.error = <<"Multiple faces detected", probe.faces>>
            ELSE IF TooSmall(probe)
            THEN loc[t].extraction.error = <<"Quality check failed", "Face too small">>
            ELSE (probe.blur = "measured" /\ probe.variance < BLUR_THRESHOLD) =>
                     loc[t].extraction.error
                         = <<"Quality check failed", "Face image too blurry">>

\* C13 witness: a face both too small and too blurry has been reported as
\* too small
C13_Witness ==
    \E t \in Threads :
        /\ loc[t].op = "extract"
        /\ OneFace(probe) /\ TooSmall(probe)
        /\ probe.blur = "measured" /\ probe.variance < BLUR_THRESHOLD
        /\ loc[t].extraction.error = <<"Quality check failed", "Face too small">>

\* C14: fr.face_encodings has run only on an image for which every rule of
\* the quality gate had passed; an image that was rejected never reached it.
C14_ExtractorAfterGate ==
    \A t \in Threads :
        (loc[t].op = "extract" /\ loc[t].extraction.extractor) =>
            /\ loc[t].extraction.verdict = "accepted"
            /\ OneFace(probe)
            /\ ~TooSmall(probe)
            /\ ~(probe.blur = "measured" /\ probe.variance < BLUR_THRESHOLD)

\* C14 witness: the gate has rejected a blurry face that the extractor would
\* have encoded, and the extractor has not run
C14_Witness ==
    \E t \in Threads :
        /\ loc[t].op = "extract"
        /\ OneFace(probe) /\ probe.encoded
        /\ loc[t].extraction.verdict = "rejected"
        /\ ~loc[t].extraction.extractor

\* C15: extract_encoding succeeds only when the sharpness was measured and is
\* strictly above the threshold; a face whose sharpness is at or below the
\* threshold is rejected as too blurry.
C15_SharpnessExceedsThreshold ==
    \A t \in Threads :
        loc[t].op = "extract" =>
            /\ loc[t].extraction.success =>
                   loc[t].extraction.measured /\ probe.variance > BLUR_THRESHOLD
            /\ (OneFace(probe) /\ ~TooSmall(probe) /\ probe.blur = "measured"
                    /\ probe.variance <= BLUR_THRESHOLD) =>
                   /\ ~loc[t].extraction.success
                   /\ loc[t].extraction.error
                          = <<"Quality check failed", "Face image too blurry">>

\* ------------------------------------------------- process_face_images
\* angle labels of collect_face_images
Angles == {"front", "left", "right"}

\* an image that passes every rule and is encoded as v
GoodImage(v) ==
    [preprocess |-> "ok", faces |-> 1, face_height |-> MIN_FACE_SIZE,
     face_width |-> MIN_FACE_SIZE, blur |-> "measured", variance |-> BLUR_THRESHOLD + 1,
     encoded |-> TRUE, encoding |-> v]

\* the images of enrollment requests: the good ones, and one image for each
\* way of being turned away
EnrollImages ==
    {GoodImage(v) : v \in Vectors}
        \cup {[GoodImage(<<0>>) EXCEPT !.preprocess = "format"],
              [GoodImage(<<0>>) EXCEPT !.faces = 0],
              [GoodImage(<<0>>) EXCEPT !.face_height = MIN_FACE_SIZE - 1],
              [GoodImage(<<0>>) EXCEPT !.variance = BLUR_THRESHOLD - 1]}

\* the angle -> image dicts of at most MaxAngles angles
AngleMaps ==
    UNION {[A -> EnrollImages] : A \in {B \in SUBSET Angles : Cardinality(B) <= MaxAngles}}

\* the orders in which "for angle, image_data in images.items()" can run
\* through a dict with these keys
Orders(keys) ==
    {o \in [1..Cardinality(keys) -> keys] :
         \A i, j \in 1..Cardinality(keys) : i # j => o[i] # o[j]}

\* an error list that reports the first angle only
FirstAngleError(order, extractions) ==
    IF Len(order) = 0 THEN <<>>
    ELSE IF extractions[1].success \/ extractions[1].error = <<>> THEN <<>>
    ELSE <<<<order[1], extractions[1].error>>>>

\* "elif result.error: errors.append(f"{angle}: {result.error}")"
RECURSIVE AngleErrors(_, _)
AngleErrors(order, extractions) ==
    IF Len(order) = 0 THEN <<>>
    ELSE LET result == extractions[1]
             rest == AngleErrors(Tail(order), Tail(extractions))
         IN  IF result.success /\ result.encoding # NoVector THEN rest
             ELSE IF result.error # <<>> THEN <<<<order[1], result.error>>>> \o rest
             ELSE rest

\* process_face_images on the dict `images` iterated in `order`: the average
\* encoding, or the message of the FaceRecognitionError
ProcessedImages(images, order) ==
    LET extractions == [i \in 1..Len(order) |-> extract_encoding(images[order[i]])]
        processed == process_face_images(extractions)
        errors == AngleErrors(order, extractions)
    IN  [ok |-> processed.ok,
         encoding |-> processed.encoding,
         error |-> IF processed.ok THEN <<>>
                   ELSE IF Len(order) = 0 THEN <<"No images provided">>
                   ELSE IF Len(errors) = 0
                   THEN <<"Face processing failed",
                          <<<<"", <<"No face detected in any of the images">>>>>>>>
                   ELSE <<"Face processing failed", errors>>]

\* a handler of thread t calls process_face_images on the images of the request
ProcessFaceImages(t, order) ==
    /\ pc[t] = "idle"
    /\ instance # 0
    /\ loc[t].op = "none"
    /\ loc' = [loc EXCEPT ![t] = [LocInit EXCEPT !.op = "process",
                                                 !.order = order,
                                                 !.enrolled = ProcessedImages(probe, order)]]
    /\ UNCHANGED <<file, instance, created, svc, lock, users, nextId, pc, ops, savedOk,
                   overlap, last, probe, results>>

InitEnroll ==
    /\ lock = [s \in Services |-> 0]
    /\ svc = [t \in Threads |-> 0]
    /\ users = {}
    /\ nextId = 1
    /\ pc = [t \in Threads |-> "idle"]
    /\ loc = [t \in Threads |-> LocInit]
    /\ ops = 0
    /\ savedOk = {}
    /\ overlap = FALSE
    /\ last = NoOp
    /\ results = [T \in Tolerances |-> NoAnswer]
    /\ instance = 1
    /\ created = 1
    /\ file = MissingFile
    /\ probe \in AngleMaps

NextEnroll == \E t \in Threads : \E order \in Orders(DOMAIN probe) : ProcessFaceImages(t, order)

SpecEnroll == InitEnroll /\ [][NextEnroll]_vars

\* ---------------------------------------- claims: process_face_images
\* the angles of the request whose extraction succeeds
AcceptedAngles == {a \in DOMAIN probe : extract_encoding(probe[a]).success}

RECURSIVE SumOverAngles(_)
SumOverAngles(angles) ==
    IF angles = {} THEN 0
    ELSE LET a == CHOOSE x \in angles : TRUE
         IN  extract_encoding(probe[a]).encoding[1] + SumOverAngles(angles \ {a})

\* C16: on a non-empty dict process_face_images fails exactly when no angle
\* was extracted, and otherwise returns the mean of the encodings of exactly
\* the extracted angles.
C16_MeanOfSuccessful ==
    \A t \in Threads :
        (loc[t].op = "process" /\ DOMAIN probe # {}) =>
            /\ loc[t].enrolled.ok <=> AcceptedAngles # {}
            /\ loc[t].enrolled.ok =>
                   loc[t].enrolled.encoding[1] * Cardinality(AcceptedAngles)
                       = SumOverAngles(AcceptedAngles)

\* C16 witness: a dict with one rejected angle and two extracted angles of
\* different encodings has been averaged
C16_Witness ==
    \E t \in Threads :
        /\ loc[t].op = "process"
        /\ loc[t].enrolled.ok
        /\ AcceptedAngles # DOMAIN probe
        /\ \E a, b \in AcceptedAngles : probe[a].encoding # probe[b].encoding

C18_EveryRejectionNamed ==
    \A t \in Threads :
        (loc[t].op = "process" /\ DOMAIN probe # {} /\ AcceptedAngles = {}) =>
            /\ ~loc[t].enrolled.ok
            /\ loc[t].enrolled.error[1] = "Face processing failed"
            /\ Len(loc[t].enrolled.error[2]) = Cardinality(DOMAIN probe)
            /\ \A a \in DOMAIN probe :
                   \E i \in 1..Len(loc[t].enrolled.error[2]) :
                       loc[t].enrolled.error[2][i] = <<a, extract_encoding(probe[a]).error>>

\* C18 witness: three angles have been rejected for three different reasons
C18_Witness ==
    \E t \in Threads :
        /\ loc[t].op = "process"
        /\ ~loc[t].enrolled.ok
        /\ Cardinality(DOMAIN probe) = 3
        /\ \A a, b \in DOMAIN probe :
               a # b => extract_encoding(probe[a]).error # extract_encoding(probe[b]).error

\* ------------------------------------------------ the duplicate guard
\* two users have enrolled through register_user, with emails of their own
InitGuard ==
    /\ lock = [s \in Services |-> 0]
    /\ svc = [t \in Threads |-> 0]
    /\ pc = [t \in Threads |-> "idle"]
    /\ loc = [t \in Threads |-> LocInit]
    /\ ops = 0
    /\ savedOk = {}
    /\ overlap = FALSE
    /\ last = NoOp
    /\ probe = NoVector
    /\ results = [T \in Tolerances |-> NoAnswer]
    /\ instance = 1
    /\ created = 1
    /\ nextId = 3
    /\ \E e1, e2 \in Vectors :
           /\ users = {UserRow(1, "a1", e1), UserRow(2, "a2", e2)}
           /\ file = FullFile(<<EncodingRecord(1, e1, [name |-> "n1", email |-> "a1"]),
                                EncodingRecord(2, e2, [name |-> "n2", email |-> "a2"])>>)

\* registrations up to the end of the duplicate guard
NextGuard ==
    \E t \in Threads :
        \E email \in Emails, password_ok \in BOOLEAN, images \in ImageMaps :
            RegisterBegin(t, email, password_ok, images)

SpecGuard == InitGuard /\ [][NextGuard]_vars

\* C19: the status and the detail returned for a registration that the
\* duplicate guard has stopped are the same whichever account was matched:
\* the message is one fixed text, holding no id, name, email or distance.
C19_SameConflictResponse ==
    /\ \A t1, t2 \in Threads :
           (loc[t1].op = "register_new" /\ loc[t1].dup # NoUser
                /\ loc[t2].op = "register_new" /\ loc[t2].dup # NoUser) =>
               /\ loc[t1].status = loc[t2].status
               /\ loc[t1].detail = loc[t2].detail
    /\ \A t \in Threads :
           (loc[t].op = "register_new" /\ loc[t].dup # NoUser) =>
               loc[t].detail[3] = <<"This face is already registered to another user.">>

\* C19 witness: two registrations have been stopped, one by the record of
\* user 1 and one by the record of user 2, at different distances
C19_Witness ==
    \E t1, t2 \in Threads :
        /\ loc[t1].op = "register_new" /\ loc[t1].dup = 1
        /\ loc[t2].op = "register_new" /\ loc[t2].dup = 2
        /\ loc[t1].match.distance # loc[t2].match.distance

\* ------------------------------------------------ failures of the store
\* json.dump raises (the disk is full, the file is not writable): the with
\* blocks are left, the file stays as open(..., 'w') made it, and
\* save_encoding raises FaceRecognitionError
SaveDumpFails(t) ==
    /\ pc[t] = "dump"
    /\ file' = file
    /\ lock' = Released(t)
    /\ pc' = [pc EXCEPT ![t] = "idle"]
    /\ loc' = [loc EXCEPT ![t] = [LocInit EXCEPT !.status = 500]]
    /\ UNCHANGED <<instance, created, svc, users, nextId, ops, savedOk, overlap, last, probe,
                   results>>

\* update_face_enrollment: the images are averaged, the row of the user is
\* updated, the encoding is saved to the file (a failure is printed and
\* ignored), the images are uploaded
UpdateFaceEnrollment(t, user_id, images) ==
    /\ pc[t] = "idle"
    /\ instance # 0
    /\ ops < MaxOps
    /\ LockFree(lock[instance])
    /\ ops' = ops + 1
    /\ pc' = pc
    /\ LET processed == process_face_images(images)
           row == CHOOSE r \in users : r.id = user_id
       IN  IF ~\E r \in users : r.id = user_id
           THEN /\ loc' = [loc EXCEPT ![t] = [LocInit EXCEPT !.op = "update_face",
                                                             !.status = 404]]
                /\ last' = Completed("failed", NoUser, NoVector, Len(images), NoResult)
                /\ UNCHANGED <<file, users>>
           ELSE IF ~processed.ok
           THEN /\ loc' = [loc EXCEPT ![t] = [LocInit EXCEPT !.op = "update_face",
                                                             !.status = 400]]
                /\ last' = Completed("failed", NoUser, NoVector, Len(images), NoResult)
                /\ UNCHANGED <<file, users>>
           ELSE /\ users' = (users \ {row}) \cup {save_face_encoding(row, processed.encoding)}
                /\ file' = IF LoadFails(file) THEN file
                           ELSE FullFile(Upsert(LoadedEncodings(file),
                                                EncodingRecord(user_id, processed.encoding,
                                                               [name |-> "n1",
                                                                email |-> row.email])))
                /\ loc' = [loc EXCEPT ![t] = [LocInit EXCEPT !.op = "update_face",
                                                             !.user_id = user_id,
                                                             !.encoding = processed.encoding,
                                                             !.n_images = Len(images),
                                                             !.stored = ~LoadFails(file),
                                                             !.status = 200]]
                /\ last' = Completed("register", user_id, processed.encoding, Len(images),
                                     NoResult)
    /\ UNCHANGED <<instance, created, svc, lock, nextId, savedOk, overlap, probe, results>>

\* user 1 has registered through register_user; writes to the file can fail
InitFault == InitDelete

NextFault ==
    \E t \in Threads :
        \/ \E u \in Users, e \in Vectors, d \in UserData : CallSave(t, u, e, d)
        \/ SaveAcquire(t)
        \/ SaveLoad(t)
        \/ SaveOpen(t)
        \/ SaveDump(t)
        \/ SaveDumpFails(t)
        \/ SaveRelease(t)
        \/ \E email \in Emails, image \in ExtractionResults : RegisterUser(t, email, image)
        \/ \E u \in Users, images \in ImageMaps : UpdateFaceEnrollment(t, u, images)
        \/ \E image \in ExtractionResults : Recognize(t, image)

SpecFault == InitFault /\ [][NextFault]_vars

\* C20: a recognition whose read of the store failed has answered 503
\* service-unavailable, and no registration or re-enrollment has reported
\* success without its record having been written to the store.
C20_StoreFailureSurfaced ==
    \A t \in Threads :
        /\ (loc[t].op = "recognize" /\ ~loc[t].load_ok) => loc[t].status = 503
        /\ (loc[t].op \in {"register_user", "update_face"} /\ loc[t].status \in {200, 201})
               => loc[t].stored

\* ------------------------------------------------ missing dependencies
\* what the process can import: utils.image_processor (PIL) and
\* face_recognition
Dependencies == [image_processor : BOOLEAN, face_recognition : BOOLEAN]

\* extract_encoding in a process with the dependencies deps: the import of
\* the image processor, preprocess_image, the import of face_recognition,
\* then the rest of the function
extract_encoding_with(deps, image) ==
    IF ~deps.image_processor
    THEN ExtractionResult(FALSE, NoVector,
                          <<"Image processing dependencies not available">>, 0, FALSE,
                          "none", FALSE, FALSE)
    ELSE IF image.preprocess # "ok" THEN extract_encoding(image)
    ELSE IF ~deps.face_recognition
    THEN ExtractionResult(FALSE, NoVector, <<"face_recognition not installed">>, 0, FALSE,
                          "none", FALSE, FALSE)
    ELSE extract_encoding(image)

\* find_match in a process with the dependencies deps: whether it raises
\* FaceRecognitionError, and the FaceMatch it returns otherwise
find_match_with(deps, encoding, f, tolerance) ==
    IF ~deps.face_recognition
    THEN [raised |-> FALSE, match |-> FaceMatch(FALSE, NoUser, NoConfidence, NoDistance, 0)]
    ELSE IF LoadFails(f) THEN [raised |-> TRUE, match |-> NoResult]
    ELSE [raised |-> FALSE, match |-> find_match(encoding, LoadedEncodings(f), tolerance)]

\* compare_faces: the distance of fr.face_distance, 1.0 when the import or
\* the computation raises
compare_faces(deps, encoding1, encoding2) ==
    IF deps.face_recognition THEN face_distance(encoding1, encoding2)
    ELSE FALLBACK_DISTANCE

\* a handler calls extract_encoding on the image of the request
ExtractWith(t) ==
    /\ pc[t] = "idle"
    /\ loc[t].op = "none"
    /\ loc' = [loc EXCEPT ![t] =
                  [LocInit EXCEPT !.op = "extract",
                                  !.extraction = extract_encoding_with(probe.deps,
                                                                       probe.image)]]
    /\ UNCHANGED <<file, instance, created, svc, lock, users, nextId, pc, ops, savedOk,
                   overlap, last, probe, results>>

\* a handler calls find_match on the encoding a
FindMatchWith(t) ==
    /\ pc[t] = "idle"
    /\ loc[t].op = "none"
    /\ LET found == find_match_with(probe.deps, probe.a, file, FACE_RECOGNITION_TOLERANCE)
       IN  loc' = [loc EXCEPT ![t] = [LocInit EXCEPT !.op = "find_match",
                                                     !.encoding = probe.a,
                                                     !.raised = found.raised,
                                                     !.match = found.match]]
    /\ file' = IF probe.deps.face_recognition THEN InitializedFile(file) ELSE file
    /\ UNCHANGED <<instance, created, svc, lock, users, nextId, pc, ops, savedOk,
                   overlap, last, probe, results>>

\* compare_faces(a, b), compare_faces(b, a) and compare_faces(a, a)
CompareFaces(t) ==
    /\ pc[t] = "idle"
    /\ loc[t].op = "none"
    /\ loc' = [loc EXCEPT ![t] =
                  [LocInit EXCEPT !.op = "compare_faces",
                                  !.compared = <<compare_faces(probe.deps, probe.a, probe.b),
                                                 compare_faces(probe.deps, probe.b, probe.a),
                                                 compare_faces(probe.deps, probe.a,
                                                               probe.a)>>]]
    /\ UNCHANGED <<file, instance, created, svc, lock, users, nextId, pc, ops, savedOk,
                   overlap, last, probe, results>>

InitDeps ==
    /\ lock = [s \in Services |-> 0]
    /\ svc = [t \in Threads |-> 0]
    /\ users = {}
    /\ nextId = 1
    /\ pc = [t \in Threads |-> "idle"]
    /\ loc = [t \in Threads |-> LocInit]
    /\ ops = 0
    /\ savedOk = {}
    /\ overlap = FALSE
    /\ last = NoOp
    /\ results = [T \in Tolerances |-> NoAnswer]
    /\ instance = 1
    /\ created = 1
    /\ file \in {FullFile(<<>>)}
                    \cup {FullFile(<<EncodingRecord(1, e, [name |-> "n1", email |-> "e1"])>>) :
                             e \in Vectors}
    /\ probe \in [deps : Dependencies, image : EnrollImages, a : Vectors, b : Vectors]

NextDeps ==
    \E t \in Threads :
        \/ ExtractWith(t)
        \/ FindMatchWith(t)
        \/ CompareFaces(t)

SpecDeps == InitDeps /\ [][NextDeps]_vars

\* the dependency that extract_encoding needs for the image is missing
ExtractorUnavailable ==
    \/ ~probe.deps.image_processor
    \/ probe.image.preprocess = "ok" /\ ~probe.deps.face_recognition

\* C21: with the image library or the biometric model missing, extract_encoding
\* does not return a FaceExtractionResult and find_match does not return the
\* FaceMatch it returns for an empty population: both raise.
C21_DependencyFaultEscalated ==
    \A t \in Threads :
        /\ (loc[t].op = "extract" /\ ExtractorUnavailable) => loc[t].raised
        /\ (loc[t].op = "find_match" /\ ~probe.deps.face_recognition)
               => (loc[t].raised
                   \/ loc[t].match # find_match(probe.a, <<>>, FACE_RECOGNITION_TOLERANCE))

\* C23: compare_faces(a, b) = compare_faces(b, a) and compare_faces(a, a) = 0.
C23_DistanceSymmetricZero ==
    \A t \in Threads :
        loc[t].op = "compare_faces"
            => /\ loc[t].compared[1] = loc[t].compared[2]
               /\ loc[t].compared[3] = 0

\* ------------------------------------------- the background task queue
\* identify_user: the encoding of the image is extracted and matched against
\* the population; ok is FALSE when it raises
identify_user(image, f, tolerance) ==
    LET extraction == extract_encoding(image)
    IN  IF ~extraction.success \/ LoadFails(f)
        THEN [ok |-> FALSE, match |-> NoResult]
        ELSE [ok |-> TRUE,
              match |-> find_match(extraction.encoding, LoadedEncodings(f), tolerance)]

\* a handler that answers a timeout of the queue with an error
FailOnTimeout(image, f) == [status |-> 504, match |-> NoResult]

\* the fallback of recognize_face: identification in the handler's process on
\* the bytes of the request
LocalFallback(image, f) ==
    LET found == identify_user(image, f, FACE_RECOGNITION_TOLERANCE)
    IN  [status |-> IF found.ok THEN 200 ELSE 400, match |-> found.match]

\* recognize_face, fail fast: the format and the size of the upload are
\* validated in the handler before anything is handed to the queue
RecognizeSubmit(t) ==
    /\ pc[t] = "idle"
    /\ loc[t].op = "none"
    /\ IF probe.preprocess \in {"format", "size"}
       THEN /\ loc' = [loc EXCEPT ![t] = [LocInit EXCEPT !.op = "recognize_async",
                                                         !.status = 400]]
            /\ pc' = pc
       ELSE /\ loc' = [loc EXCEPT ![t] = [LocInit EXCEPT !.op = "recognize_async"]]
            /\ pc' = [pc EXCEPT ![t] = "dispatch"]
    /\ UNCHANGED <<file, instance, created, svc, lock, users, nextId, ops, savedOk,
                   overlap, last, probe, results>>

\* recognize_face_task.delay(...) puts the task on the queue
Dispatch(t) ==
    /\ pc[t] = "dispatch"
    /\ loc' = [loc EXCEPT ![t].task = "queued"]
    /\ pc' = [pc EXCEPT ![t] = "wait"]
    /\ UNCHANGED <<file, instance, created, svc, lock, users, nextId, ops, savedOk,
                   overlap, last, probe, results>>

\* recognize_face_task.delay(...) raises: the broker cannot be reached
DispatchFails(t) ==
    /\ pc[t] = "dispatch"
    /\ loc' = [loc EXCEPT ![t].fallback = TRUE]
    /\ pc' = [pc EXCEPT ![t] = "local"]
    /\ UNCHANGED <<file, instance, created, svc, lock, users, nextId, ops, savedOk,
                   overlap, last, probe, results>>

\* recognize_face_task in a worker: identify_user on the decoded bytes; every
\* exception becomes {"success": False}
RecognizeFaceTask(t) ==
    /\ loc[t].task = "queued"
    /\ LET found == identify_user(probe, file, FACE_RECOGNITION_TOLERANCE)
       IN  loc' = [loc EXCEPT ![t].task = "done",
                              ![t].task_ok = found.ok,
                              ![t].task_match = found.match]
    /\ UNCHANGED <<file, instance, created, svc, lock, users, nextId, pc, ops, savedOk,
                   overlap, last, probe, results>>

\* the result of the task arrives within the wait timeout
ResultArrives(t) ==
    /\ pc[t] = "wait"
    /\ loc[t].task = "done"
    /\ loc' = [loc EXCEPT ![t].status = IF loc[t].task_ok THEN 200 ELSE 400,
                          ![t].match = loc[t].task_match]
    /\ pc' = [pc EXCEPT ![t] = "idle"]
    /\ UNCHANGED <<file, instance, created, svc, lock, users, nextId, ops, savedOk,
                   overlap, last, probe, results>>

\* the wait for the result times out
WaitTimeout(t) ==
    /\ pc[t] = "wait"
    /\ loc[t].task # "done"
    /\ loc' = [loc EXCEPT ![t].fallback = TRUE]
    /\ pc' = [pc EXCEPT ![t] = "local"]
    /\ UNCHANGED <<file, instance, created, svc, lock, users, nextId, ops, savedOk,
                   overlap, last, probe, results>>

\* the handler identifies the face itself and answers
RunLocally(t) ==
    /\ pc[t] = "local"
    /\ LET answer == LocalFallback(probe, file)
       IN  loc' = [loc EXCEPT ![t].status = answer.status, ![t].match = answer.match]
    /\ pc' = [pc EXCEPT ![t] = "idle"]
    /\ UNCHANGED <<file, instance, created, svc, lock, users, nextId, ops, savedOk,
                   overlap, last, probe, results>>

InitQueue ==
    /\ lock = [s \in Services |-> 0]
    /\ svc = [t \in Threads |-> 0]
    /\ nextId = 2
    /\ pc = [t \in Threads |-> "idle"]
    /\ loc = [t \in Threads |-> LocInit]
    /\ ops = 0
    /\ savedOk = {}
    /\ overlap = FALSE
    /\ last = NoOp
    /\ results = [T \in Tolerances |-> NoAnswer]
    /\ instance = 1
    /\ created = 1
    /\ \E e \in Vectors :
           /\ users = {UserRow(1, "e1", e)}
           /\ file = FullFile(<<EncodingRecord(1, e, [name |-> "n1", email |-> "e1"])>>)
    /\ probe \in EnrollImages

NextQueue ==
    \E t \in Threads :
        \/ RecognizeSubmit(t)
        \/ Dispatch(t)
        \/ DispatchFails(t)
        \/ RecognizeFaceTask(t)
        \/ ResultArrives(t)
        \/ WaitTimeout(t)
        \/ RunLocally(t)

SpecQueue == InitQueue /\ [][NextQueue]_vars

\* a request whose dispatch failed or whose wait timed out has been answered
FellBack(t) ==
    loc[t].op = "recognize_async" /\ loc[t].fallback /\ loc[t].status # 0

CalCoords == {0, 330, 514, 900, 1100}

\* a photo of the dataset: the encoding of its single face, or NoVector for a
\* photo that is skipped (no face, several faces, unreadable)
CalPhotos == {<<c>> : c \in CalCoords} \cup {NoVector}

\* the directory of one person, and the dataset in the order of iterdir()
CalPeople == UNION {[1..n -> CalPhotos] : n \in 0..MaxPhotos}
Datasets == UNION {[1..n -> CalPeople] : n \in 0..MaxPeople}

\* people_encodings[name]: the encodings of the photos that were loaded
RECURSIVE LoadedPhotos(_)
LoadedPhotos(photos) ==
    IF Len(photos) = 0 THEN <<>>
    ELSE IF Head(photos) = NoVector THEN LoadedPhotos(Tail(photos))
    ELSE <<Head(photos)>> \o LoadedPhotos(Tail(photos))

RECURSIVE TotalImages(_)
TotalImages(dataset) ==
    IF Len(dataset) = 0 THEN 0
    ELSE Len(LoadedPhotos(Head(dataset))) + TotalImages(Tail(dataset))

\* "for i in range(len(encodings)): for j in range(i + 1, len(encodings))"
RECURSIVE PairsWithin(_, _, _)
PairsWithin(encodings, i, j) ==
    IF i > Len(encodings) THEN <<>>
    ELSE IF j > Len(encodings) THEN PairsWithin(encodings, i + 1, i + 2)
    ELSE <<face_distance(encodings[i], encodings[j])>> \o PairsWithin(encodings, i, j + 1)

\* positive_distances: the pairs of photos of the same person
RECURSIVE PositiveDistances(_)
PositiveDistances(dataset) ==
    IF Len(dataset) = 0 THEN <<>>
    ELSE PairsWithin(LoadedPhotos(Head(dataset)), 1, 2) \o PositiveDistances(Tail(dataset))

\* "for enc_a in people_encodings[name_a]: for enc_b in people_encodings[name_b]"
RECURSIVE PairsAcross(_, _, _, _)
PairsAcross(encodings_a, encodings_b, i, j) ==
    IF i > Len(encodings_a) THEN <<>>
    ELSE IF j > Len(encodings_b) THEN PairsAcross(encodings_a, encodings_b, i + 1, 1)
    ELSE <<face_distance(encodings_a[i], encodings_b[j])>>
             \o PairsAcross(encodings_a, encodings_b, i, j + 1)

\* negative_distances: the pairs of photos of different people
RECURSIVE NegativeDistances(_, _, _)
NegativeDistances(dataset, i, j) ==
    IF i > Len(dataset) THEN <<>>
    ELSE IF j > Len(dataset) THEN NegativeDistances(dataset, i + 1, i + 2)
    ELSE PairsAcross(LoadedPhotos(dataset[i]), LoadedPhotos(dataset[j]), 1, 1)
             \o NegativeDistances(dataset, i, j + 1)

\* np.min and np.max of a non-empty list
SeqMin(distances) ==
    CHOOSE d \in {distances[i] : i \in 1..Len(distances)} :
        \A i \in 1..Len(distances) : d <= distances[i]
SeqMax(distances) ==
    CHOOSE d \in {distances[i] : i \in 1..Len(distances)} :
        \A i \in 1..Len(distances) : d >= distances[i]

\* false_accepts and false_rejects at the threshold t / 100.0
FalseAccepts(negative, t) ==
    Cardinality({i \in 1..Len(negative) : negative[i] < 10 * t})
FalseRejects(positive, t) ==
    Cardinality({i \in 1..Len(positive) : positive[i] > 10 * t})

\* accuracy = 100 - (far + frr), times len(negative) * len(positive) (1 for
\* an empty list, whose rate is 0)
Accuracy(positive, negative, t) ==
    LET n == Max2(1, Len(negative))
        p == Max2(1, Len(positive))
    IN  100 * n * p - 100 * (FalseAccepts(negative, t) * p + FalseRejects(positive, t) * n)

\* the sweep "for t in range(30, 80, 5)": (best_accuracy, best_threshold)
\* start at (0, 0.6) and are replaced on a strictly higher accuracy
RECURSIVE Sweep(_, _, _, _, _)
Sweep(positive, negative, t, best_accuracy, best_threshold) ==
    IF t >= GRID_STOP THEN best_threshold
    ELSE IF Accuracy(positive, negative, t) > best_accuracy
         THEN Sweep(positive, negative, t + GRID_STEP, Accuracy(positive, negative, t), t)
         ELSE Sweep(positive, negative, t + GRID_STEP, best_accuracy, best_threshold)

\* f"{x:.2f}" of a distance: the nearest hundredth
Format2(distance) == (distance + 5) \div 10

\* analyze_dataset on an existing dataset: "not_enough" for the message of
\* line 68, "raised" when np.min of an empty list raises ValueError at line
\* 113 or 117, else the report
analyze_dataset(dataset) ==
    LET positive == PositiveDistances(dataset)
        negative == NegativeDistances(dataset, 1, 2)
    IN  IF TotalImages(dataset) < 2
        THEN [NoReport EXCEPT !.outcome = "not_enough"]
        ELSE IF Len(positive) = 0 \/ Len(negative) = 0
        THEN [NoReport EXCEPT !.outcome = "raised", !.positive = positive,
                              !.negative = negative]
        ELSE [outcome |-> "report", positive |-> positive, negative |-> negative,
              recommended |-> Sweep(positive, negative, GRID_START, 0, DEFAULT_THRESHOLD),
              perfect |-> SeqMin(negative) - SeqMax(positive) > 0,
              low |-> Format2(SeqMax(positive)),
              high |-> Format2(SeqMin(negative))]

\* python analyze_tolerance.py <dataset>
AnalyzeDataset(t) ==
    /\ pc[t] = "idle"
    /\ loc[t].op = "none"
    /\ loc' = [loc EXCEPT ![t] = [LocInit EXCEPT !.op = "analyze",
                                                 !.report = analyze_dataset(probe)]]
    /\ UNCHANGED <<file, instance, created, svc, lock, users, nextId, pc, ops, savedOk,
                   overlap, last, probe, results>>

InitCalib ==
    /\ lock = [s \in Services |-> 0]
    /\ svc = [t \in Threads |-> 0]
    /\ users = {}
    /\ nextId = 1
    /\ pc = [t \in Threads |-> "idle"]
    /\ loc = [t \in Threads |-> LocInit]
    /\ ops = 0
    /\ savedOk = {}
    /\ overlap = FALSE
    /\ last = NoOp
    /\ results = [T \in Tolerances |-> NoAnswer]
    /\ instance = 0
    /\ created = 0
    /\ file = MissingFile
    /\ probe \in Datasets

NextCalib == \E t \in Threads : AnalyzeDataset(t)

SpecCalib == InitCalib /\ [][NextCalib]_vars

\* the candidates 0.30, 0.35, ..., 0.80
CandidateGrid == {GRID_START + GRID_STEP * k : k \in 0..((GRID_STOP - GRID_START) \div GRID_STEP)}

\* C24: the tolerance a report recommends is a candidate of the grid
\* 0.30 .. 0.80 and no candidate has a strictly higher accuracy.
C24_RecommendedMaximizesAccuracy ==
    \A t \in Threads :
        (loc[t].op = "analyze" /\ loc[t].report.outcome = "report")
            => LET r == loc[t].report
               IN  /\ r.recommended \in CandidateGrid
                   /\ \A c \in CandidateGrid :
                          Accuracy(r.positive, r.negative, c)
                              <= Accuracy(r.positive, r.negative, r.recommended)

\* C25: when max(positive) < min(negative) the report announces perfect
\* separation with a non-empty range, and every tolerance between the two
\* ends it prints accepts every same-person pair and rejects every
\* different-person pair under distance <= tolerance.
C25_ReportedRangeValid ==
    \A t \in Threads :
        LET r == loc[t].report
        IN  (loc[t].op = "analyze" /\ r.outcome = "report"
                 /\ SeqMax(r.positive) < SeqMin(r.negative))
                => /\ r.perfect
                   /\ r.low < r.high
                   /\ \A tolerance \in (10 * r.low + 1)..(10 * r.high - 1) :
                          /\ \A i \in 1..Len(r.positive) :
                                 WithinTolerance(r.positive[i], tolerance)
                          /\ \A i \in 1..Len(r.negative) :
                                 ~WithinTolerance(r.negative[i], tolerance)

\* C29: on an existing dataset the calibrator ends normally: with the
\* not-enough-images message below two usable photos, with a report and its
\* recommended tolerance from two photos on.
C29_CalibratorTerminates ==
    \A t \in Threads :
        loc[t].op = "analyze"
            => IF TotalImages(probe) < 2
               THEN loc[t].report.outcome = "not_enough"
               ELSE /\ loc[t].report.outcome = "report"
                    /\ loc[t].report.recommended \in CandidateGrid

\* ------------------------------------------ the life of the population
\* user 1 is enrolled; accounts are registered through POST /api/register,
\* re-enrolled through POST /api/profile/face/{user_id} and deleted, one
\* request at a time
InitAccounts == InitDelete

NextAccounts ==
    \E t \in Threads :
        \/ \E email \in Emails, image \in ExtractionResults : RegisterUser(t, email, image)
        \/ \E u \in Users, images \in ImageMaps : UpdateFaceEnrollment(t, u, images)
        \/ \E u \in Users : DeleteUser(t, u)

SpecAccounts == InitAccounts /\ [][NextAccounts]_vars

\* C26: no two records of the population that belong to different users hold
\* vectors within tolerance of each other.
C26_NoSharedFace ==
    \A i, j \in 1..Len(file.encodings) :
        file.encodings[i].user_id # file.encodings[j].user_id
            => ~WithinTolerance(face_distance(file.encodings[i].encoding,
                                              file.encodings[j].encoding),
                                FACE_RECOGNITION_TOLERANCE)

\* ------------------------------------------- the order of the population
\* find_match(encoding) called by a handler: the population it loaded and
\* the FaceMatch it returned
FindMatchCall(t, encoding) ==
    /\ pc[t] = "idle"
    /\ instance # 0
    /\ IF LoadFails(file)
       THEN /\ loc' = [loc EXCEPT ![t] = [LocInit EXCEPT !.op = "find_match",
                                                         !.encoding = encoding,
                                                         !.load_ok = FALSE,
                                                         !.raised = TRUE]]
            /\ file' = file
       ELSE /\ loc' = [loc EXCEPT ![t] =
                          [LocInit EXCEPT !.op = "find_match",
                                          !.encoding = encoding,
                                          !.loaded = LoadedEncodings(file),
                                          !.match = find_match(encoding,
                                                               LoadedEncodings(file),
                                                               FACE_RECOGNITION_TOLERANCE)]]
            /\ file' = InitializedFile(file)
    /\ UNCHANGED <<instance, created, svc, lock, users, nextId, pc, ops, savedOk, overlap,
                   last, probe, results>>

\* one service object and a population of one or more users already enrolled
InitOrder ==
    /\ InitCommon
    /\ instance = 1
    /\ created = 1
    /\ file \in {FullFile(s) : s \in {p \in Populations : Len(p) >= 1}}

NextOrder ==
    \E t \in Threads :
        \/ \E u \in Users, e \in Vectors, d \in UserData : CallSave(t, u, e, d)
        \/ SaveAcquire(t)
        \/ SaveLoad(t)
        \/ SaveOpen(t)
        \/ SaveDump(t)
        \/ SaveRelease(t)
        \/ \E e \in Vectors : FindMatchCall(t, e)

SpecOrder == InitOrder /\ [][NextOrder]_vars

\* the distance of the i-th record that thread t loaded from its probe
LoadedDistance(t, i) == face_distance(loc[t].loaded[i].encoding, loc[t].encoding)

\* C27: a save leaves every user that was enrolled at its position and puts a
\* new user at the end; find_match answers with the first record of the
\* population among those at the minimum distance.
C27_FirstEnrolledWinsTies ==
    \A t \in Threads :
        /\ (pc[t] = "release") =>
              /\ \A i \in 1..Len(loc[t].before) :
                     /\ i <= Len(file.encodings)
                     /\ file.encodings[i].user_id = loc[t].before[i].user_id
              /\ Len(file.encodings)
                     = Len(loc[t].before)
                           + (IF loc[t].user_id \in UserIds(loc[t].before) THEN 0 ELSE 1)
              /\ file.encodings[Len(file.encodings)].user_id \in
                     UserIds(loc[t].before) \cup {loc[t].user_id}
        /\ (loc[t].op = "find_match" /\ Len(loc[t].loaded) > 0) =>
              \E k \in 1..Len(loc[t].loaded) :
                  /\ loc[t].match.user_id = loc[t].loaded[k].user_id
                  /\ \A i \in 1..Len(loc[t].loaded) : LoadedDistance(t, i) >= LoadedDistance(t, k)
                  /\ \A i \in 1..(k - 1) : LoadedDistance(t, i) > LoadedDistance(t, k)

C27_Witness ==
    \E t \in Threads :
        /\ loc[t].op = "find_match"
        /\ Len(loc[t].loaded) = 2
        /\ LoadedDistance(t, 1) = LoadedDistance(t, 2)
        /\ loc[t].loaded[1].user_id \in savedOk
        /\ loc[t].match.user_id = loc[t].loaded[1].user_id

\* ---------------------------------------------------------- the singleton
\* C28: at most one FaceRecognitionService, and with it one store lock, is
\* ever constructed, and every get_face_service call returns that object.
C28_OneServiceInstance ==
    /\ created <= 1
    /\ \A t \in Threads : svc[t] # 0 => svc[t] = instance
    /\ \A t, u \in Threads : (svc[t] # 0 /\ svc[u] # 0) => svc[t] = svc[u]

\* ---------------------------------------------------------- connections
\* the accounts, and the ids of user_connections rows (1, 2), of an external
\* contact of the relatives table (3) and of no row (4)
Members == 1..3
ConnectionIds == 1..4

\* a row of user_connections (user_id owns it, other is connected_user_id), of
\* connection_requests (user_id sent it to other) or an external contact of
\* relatives (user_id owns it)
Row(table, id, user_id, other) ==
    [table |-> table, id |-> id, user_id |-> user_id, other |-> other]

\* user a is connected to user b: the connection with id 1, its reverse
\* record with id 2, and possibly the request a sent to b, the request b
\* sent to a and an external contact of a
ConnectionTables ==
    {{Row("user_connections", 1, a, b), Row("user_connections", 2, b, a)} \cup requests
         \cup contacts :
        a \in Members, b \in Members,
        requests \in SUBSET {Row("connection_requests", 0, 1, 2),
                             Row("connection_requests", 0, 2, 1),
                             Row("connection_requests", 0, 1, 3)},
        contacts \in {{}, {Row("relatives", 3, 1, 0)}, {Row("relatives", 3, 2, 0)}}}

\* the deletes of a linked connection: the record, its reverse record and the
\* requests between the two users
DeleteLinked(rows, connection, user_id) ==
    {r \in rows :
        /\ ~(r.table = "user_connections" /\ r.id = connection.id)
        /\ ~(r.table = "user_connections" /\ r.user_id = connection.other
                /\ r.other = user_id)
        /\ ~(r.table = "connection_requests" /\ r.user_id = user_id
                /\ r.other = connection.other)
        /\ ~(r.table = "connection_requests" /\ r.user_id = connection.other
                /\ r.other = user_id)}

\* the delete of an external contact
DeleteExternal(rows, contact) ==
    {r \in rows : ~(r.table = "relatives" /\ r.id = contact.id)}

LinkedCheck(rows, connection_id) ==
    {r \in rows : r.table = "user_connections" /\ r.id = connection_id}
ExternalCheck(rows, connection_id) ==
    {r \in rows : r.table = "relatives" /\ r.id = connection_id}

\* ConnectionService.delete_connection: the HTTPException of the ownership
\* test passes through service_guard
delete_connection(rows, connection_id, user_id) ==
    IF LinkedCheck(rows, connection_id) # {}
    THEN LET connection == CHOOSE r \in LinkedCheck(rows, connection_id) : TRUE
         IN  IF connection.user_id # user_id THEN [status |-> 403, rows |-> rows]
             ELSE [status |-> 200, rows |-> DeleteLinked(rows, connection, user_id)]
    ELSE IF ExternalCheck(rows, connection_id) # {}
    THEN LET contact == CHOOSE r \in ExternalCheck(rows, connection_id) : TRUE
         IN  IF contact.user_id # user_id THEN [status |-> 403, rows |-> rows]
             ELSE [status |-> 200, rows |-> DeleteExternal(rows, contact)]
    ELSE [status |-> 404, rows |-> rows]

\* DELETE /api/connections/{connection_id}: each of the two lookups runs in
\* "try: ... except Exception: pass", which also catches the HTTPException
\* of its ownership test, so a refused lookup falls through to the next
delete_connection_route(rows, connection_id, current_user_id) ==
    LET linked == LinkedCheck(rows, connection_id)
        external == ExternalCheck(rows, connection_id)
        connection == CHOOSE r \in linked : TRUE
        contact == CHOOSE r \in external : TRUE
    IN  IF linked # {} /\ connection.user_id = current_user_id
        THEN [status |-> 200, rows |-> DeleteLinked(rows, connection, current_user_id)]
        ELSE IF external # {} /\ contact.user_id = current_user_id
        THEN [status |-> 200, rows |-> DeleteExternal(rows, contact)]
        ELSE [status |-> 404, rows |-> rows]

\* a request to the service method
DeleteConnectionService(t, connection_id, user_id) ==
    /\ pc[t] = "idle"
    /\ loc[t].op = "none"
    /\ LET done == delete_connection(users, connection_id, user_id)
       IN  /\ users' = done.rows
           /\ loc' = [loc EXCEPT ![t] = [LocInit EXCEPT !.op = "delete_connection",
                                                        !.user_id = user_id,
                                                        !.connection_id = connection_id,
                                                        !.rows_before = users,
                                                        !.rows_after = done.rows,
                                                        !.status = done.status]]
    /\ UNCHANGED <<file, instance, created, svc, lock, nextId, pc, ops, savedOk, overlap,
                   last, probe, results>>

\* a request to the route
DeleteConnectionRoute(t, connection_id, current_user_id) ==
    /\ pc[t] = "idle"
    /\ loc[t].op = "none"
    /\ LET done == delete_connection_route(users, connection_id, current_user_id)
       IN  /\ users' = done.rows
           /\ loc' = [loc EXCEPT ![t] = [LocInit EXCEPT !.op = "delete_connection_route",
                                                        !.user_id = current_user_id,
                                                        !.connection_id = connection_id,
                                                        !.rows_before = users,
                                                        !.rows_after = done.rows,
                                                        !.status = done.status]]
    /\ UNCHANGED <<file, instance, created, svc, lock, nextId, pc, ops, savedOk, overlap,
                   last, probe, results>>

InitConnections ==
    /\ lock = [s \in Services |-> 0]
    /\ svc = [t \in Threads |-> 0]
    /\ users \in {rows \in ConnectionTables :
                     \A r \in rows : r.table = "user_connections" => r.user_id # r.other}
    /\ nextId = 1
    /\ pc = [t \in Threads |-> "idle"]
    /\ loc = [t \in Threads |-> LocInit]
    /\ ops = 0
    /\ savedOk = {}
    /\ overlap = FALSE
    /\ last = NoOp
    /\ results = [T \in Tolerances |-> NoAnswer]
    /\ instance = 0
    /\ created = 0
    /\ file = MissingFile
    /\ probe = NoVector

NextConnections ==
    \E t \in Threads, connection_id \in ConnectionIds, user_id \in Members :
        \/ DeleteConnectionService(t, connection_id, user_id)
        \/ DeleteConnectionRoute(t, connection_id, user_id)

SpecConnections == InitConnections /\ [][NextConnections]_vars

\* thread t asked to delete a connection that another user owns
NotTheOwner(t) ==
    /\ loc[t].op \in {"delete_connection", "delete_connection_route"}
    /\ \E r \in loc[t].rows_before :
           /\ r.table = "user_connections"
           /\ r.id = loc[t].connection_id
           /\ r.user_id # loc[t].user_id

\* C30: a delete_connection by a user who does not own the connection is
\* answered 403 and leaves every row of the connection tables in place.
C30_NonOwnerRefused ==
    \A t \in Threads :
        NotTheOwner(t) => /\ loc[t].status = 403
                          /\ loc[t].rows_after = loc[t].rows_before

====
